---- MODULE Spec2Model ----
(***************************************************************************)
(* Admin console: the product upload and search pages.                     *)
(*                                                                         *)
(* Every page is a React function component: its useState cells are one    *)
(* record variable, reset to the initial values when the page is mounted.  *)
(* A submit handler is an async function: each run of a handler is one     *)
(* record of `calls`, with its position (pc) between two awaits, the       *)
(* values its closure captured, the requests it has issued and the         *)
(* responses it has received.  The code between two awaits runs as one     *)
(* action (JavaScript runs a task to completion).  A state setter called   *)
(* by a handler whose component was unmounted changes nothing.             *)
(*                                                                         *)
(* Strings that are tested by includes() are sequences of text pieces;     *)
(* KeywordsOf gives the keywords that occur inside a piece.                *)
(***************************************************************************)
EXTENDS Integers, Sequences, FiniteSets, TLC

VARIABLES currentPage, addProduct, upload, aiProduct, search, vector, calls,
          localStorage, viewTable

vars == <<currentPage, addProduct, upload, aiProduct, search, vector, calls,
          localStorage, viewTable>>

\* What the handlers and inputs of one page leave alone.
notAddProduct == <<currentPage, upload, aiProduct, search, vector, localStorage, viewTable>>
notUpload == <<currentPage, addProduct, aiProduct, search, vector, localStorage, viewTable>>
notAIProduct == <<currentPage, addProduct, upload, search, vector, localStorage, viewTable>>
notSearch == <<currentPage, addProduct, upload, aiProduct, vector, localStorage, viewTable>>
notVector == <<currentPage, addProduct, upload, aiProduct, search, localStorage, viewTable>>

\* Handler runs kept at once (running or finished and still observed).
MaxCalls == 2
\* Longest video selection of the file dialog.
MaxVideos == 2

----------------------------------------------------------------------------
\* Values the operator can type or pick.

NoFile == "NoFile"
Null == [null |-> TRUE]
Files == {"guide.pdf"}
Videos == {"v1.mp4", "v2.mp4"}

\* Text inputs: empty, whitespace only, a proper value.
TextValues == {"", "   ", "Intro to SQL"}
ShortTextValues == {"", "Database"}
\* <input type="number">: its value is "" unless the text is a valid number.
PriceValues == {"", "19.99", "-5"}

\* All selections of distinct videos of length at most n, in order.
VideoLists == {s \in UNION {[1..n -> Videos] : n \in 0..MaxVideos} :
                 \A i, j \in DOMAIN s : i # j => s[i] # s[j]}

\* String.prototype.trim on the modelled values.
Trim(s) == IF s = "   " THEN "" ELSE s

\* Price in cents; "" has no numeric value.
PriceCents(p) == CASE p = "19.99" -> 1999
                   [] p = "-5" -> -500
                   [] OTHER -> 0

\* The browser's storage of the session: the items the upload handlers
\* read.  No page of the console writes them.
NoItem == "null"
StoredSessions ==
  {[admin_id |-> NoItem, admin_type |-> NoItem],
   [admin_id |-> "7c9e6679-7425-40de-944b-e07fc1f90ae7",
    admin_type |-> "sub_admin"]}

DefaultAdminId == "550e8400-e29b-41d4-a716-446655440000"
DefaultAdminType == "super_admin"

\* localStorage.getItem(key) || fallback
GetItemOr(key, fallback) ==
  IF localStorage[key] = NoItem THEN fallback ELSE localStorage[key]

\* The admin_id and admin_type parts of an upload request.
Actor ==
  [admin_id |-> GetItemOr("admin_id", DefaultAdminId),
   admin_type |-> GetItemOr("admin_type", DefaultAdminType)]

\* parseFloat of the value of a number input: the number the text denotes,
\* NaN for the empty value.
ParseFloat(p) == IF p = "" THEN "NaN" ELSE p

\* JSON.stringify of a number: its text, null for NaN.
JsonNumber(x) == IF x = "NaN" THEN "null" ELSE x

----------------------------------------------------------------------------
\* Message text.

\* The keywords (of those the pages test for) occurring inside a piece.
KeywordsOf(t) ==
  CASE t \in {"Error: ", "Error creating product: ",
              "Error: Please select a product file",
              "Error: Please enter a search query",
              "Error: Please enter a search question",
              "Error: Please enter at least one product ID",
              "NetworkError when attempting to fetch resource."} -> {"Error"}
    [] t \in {"Network error: ", "Unknown error occurred",
              "Internal server error"} -> {"error"}
    [] t \in {"Product created but AI processing failed: ",
              "Search failed"} -> {"failed"}
    [] OTHER -> {}

\* String.prototype.includes on a message.
Includes(message, needle) ==
  \E k \in DOMAIN message : needle \in KeywordsOf(message[k])

\* Messages a server puts in the "message" field; Absent: no such field.
Absent == "undefined"
ServerMessages == {"Disk full", "Internal server error"}

\* error.message of a rejected fetch (Chromium, Firefox).
FetchErrors == {"Failed to fetch",
                "NetworkError when attempting to fetch resource."}
\* error.message of a rejected response.json().
JsonError == "Unexpected token < in JSON at position 0"

----------------------------------------------------------------------------
\* Responses.

Statuses == {200, 500}
ProductIds == {"abc-123", "xyz-789"}

\* Body of the record-creation endpoint (phase 1).
ProductBodies ==
  [success : {TRUE}, message : {Absent}, product_id : ProductIds]
    \cup [success : {FALSE}, message : ServerMessages \cup {Absent},
          product_id : {Absent}]

\* Body of the processing endpoint (phase 2), n videos sent.
AIBodies(n) ==
  [success : {TRUE}, message : {Absent},
   data : [course_id : {"course-1"}, successful_videos : 0..n,
           total_videos : {n}, embeddings_created : {7},
           root_directory : {"gs://courses/course-1"}]]
    \cup [success : {FALSE}, message : ServerMessages \cup {Absent},
          data : {Absent}]

\* Body of the digital-product endpoint of the admin panel.
DigitalBodies ==
  [success : {TRUE}, message : {Absent}]
    \cup [success : {FALSE}, message : ServerMessages \cup {Absent}]

----------------------------------------------------------------------------
\* The status line of each page.

\* The message cell of a page.
MessageOf(page) ==
  CASE page = "addProduct" -> addProduct.message
    [] page = "uploadDigitalProduct" -> upload.message
    [] page = "addAIProduct" -> aiProduct.message
    [] page = "searchDigitalProduct" -> search.message
    [] page = "vectorSearch" -> vector.message
    [] OTHER -> <<>>

\* The loading cell of a page.
LoadingOf(page) ==
  CASE page = "addProduct" -> addProduct.loading
    [] page = "uploadDigitalProduct" -> upload.loading
    [] page = "addAIProduct" -> aiProduct.loading
    [] page = "searchDigitalProduct" -> search.loading
    [] page = "vectorSearch" -> vector.loading
    [] OTHER -> FALSE

\* The keywords whose presence in the message gives the error colours.
ToneKeywords(page) ==
  CASE page = "addProduct" -> {"Error", "failed"}
    [] page = "searchDigitalProduct" -> {"Error"}
    [] OTHER -> {"Error", "error"}

\* The styling of the status line of a page showing message m.
ToneOf(page, m) ==
  IF \E w \in ToneKeywords(page) : Includes(m, w) THEN "error" ELSE "success"

\* A submit button without its disabled attribute.
SubmitNeverDisabled(page) == FALSE

\* disabled={loading} of the submit button of a page: the browser starts no
\* submission (by click or by the Enter key) through a disabled button.
SubmitDisabled(page) == LoadingOf(page)

----------------------------------------------------------------------------
\* Handler runs.

Running(c) == c.pc # "done"

\* The requests of a run to one endpoint.
RequestsTo(c, endpoint) == SelectSeq(c.reqs, LAMBDA r : r.endpoint = endpoint)

\* A finished run is observed until the operator's next action.
Kept == SelectSeq(calls, Running)

\* The overall status a finished run stands for.
StatusOf(c) ==
  CASE c.outcome \in {"success", "processed"} -> "success"
    [] c.outcome = "pending" -> "none"
    [] c.handler = "handleAISubmit" /\ Len(c.reqs) = 2 -> "partial_failure"
    [] OTHER -> "failure"

\* The result data a page holds for display.
ResultDataOf(page) ==
  CASE page = "uploadDigitalProduct" -> upload.responseData
    [] page = "addAIProduct" -> aiProduct.responseData
    [] page = "searchDigitalProduct" -> search.searchResults
    [] page = "vectorSearch" -> vector.searchResults
    [] OTHER -> Null

\* The outcome on display when a submission starts: the status of the run
\* that has just finished on the page, the styling of its message, and
\* whether the page holds result data.
Shown(page) ==
  IF \E k \in DOMAIN calls :
       calls[k].page = page /\ calls[k].live /\ ~Running(calls[k])
  THEN LET k == CHOOSE k \in DOMAIN calls :
                  calls[k].page = page /\ calls[k].live /\ ~Running(calls[k])
       IN [status |-> StatusOf(calls[k]),
           tone |-> ToneOf(page, MessageOf(page)),
           data |-> ResultDataOf(page) # Null]
  ELSE [status |-> "none", tone |-> "none",
        data |-> ResultDataOf(page) # Null]

NewCall(page, handler, pc, draft, reqs) ==
  [page |-> page, handler |-> handler, pc |-> pc, live |-> TRUE,
   draft |-> draft, reqs |-> reqs, resps |-> <<>>, outcome |-> "pending",
   shown |-> Shown(page),
   \* the number of requests sent when the page was left (0 while mounted)
   leftWith |-> 0]

\* The run after its handler returned through the finally block.
Finish(c, outcome) == [c EXCEPT !.pc = "done", !.outcome = outcome]

\* The run with a received response appended.
Received(c, resp) == [c EXCEPT !.resps = Append(@, resp)]

\* The run with the body of its last response known.
Parsed(c, kind, body) ==
  [c EXCEPT !.resps[Len(c.resps)] = [@ EXCEPT !.kind = kind, !.body = body]]

\* await fetch(...) resolved: the status line and headers are in.
Headers(c, s, pc) ==
  [Received(c, [status |-> s, kind |-> "headers", body |-> Absent])
     EXCEPT !.pc = pc]

\* A handler that sends its request once more after a rejected fetch.
RejectedRetry(c, e) ==
  IF Len(c.reqs) < 3
  THEN [Received(c, [status |-> 0, kind |-> "transport", body |-> e])
          EXCEPT !.reqs = Append(@, c.reqs[Len(c.reqs)])]
  ELSE Finish(Received(c, [status |-> 0, kind |-> "transport", body |-> e]),
              "network_error")

\* await fetch(...) rejected with error message e: the handler's catch and
\* finally blocks end the run.
Rejected(c, e) ==
  Finish(Received(c, [status |-> 0, kind |-> "transport", body |-> e]),
         "network_error")

\* The video parts in the reverse of the selection order.
AppendVideosReversed(parts, videos) ==
  parts \o [i \in 1..Len(videos) |->
              [name |-> "videos", value |-> videos[Len(videos) + 1 - i]]]

\* videos.forEach(video => formData.append('videos', video)): one part per
\* selected file, appended after the parts the form data already has.
RECURSIVE AppendVideos(_, _)
AppendVideos(parts, videos) ==
  IF videos = <<>>
  THEN parts
  ELSE AppendVideos(Append(parts, [name |-> "videos", value |-> Head(videos)]),
                    Tail(videos))

----------------------------------------------------------------------------
\* AddProduct (the two-form product page of the admin panel).

InitAddProduct ==
  [productType |-> "", name |-> "", category |-> "", price |-> "",
   description |-> "", file |-> NoFile, videos |-> <<>>,
   loading |-> FALSE, message |-> <<>>,
   \* the file inputs of the document (uncontrolled)
   fileInput |-> NoFile, videosInput |-> <<>>]

\* The two buttons that choose the form; the inputs of the other form leave
\* the document, the state cells stay.
setProductType(t) ==
  /\ currentPage = "addProduct"
  /\ ~addProduct.loading
  /\ addProduct.productType # t
  /\ addProduct' = [addProduct EXCEPT !.productType = t,
                                      !.fileInput = NoFile,
                                      !.videosInput = <<>>]
  /\ calls' = Kept
  /\ UNCHANGED notAddProduct

setName(v) ==
  /\ currentPage = "addProduct"
  /\ addProduct.productType \in {"digital", "ai"}
  /\ ~addProduct.loading
  /\ addProduct' = [addProduct EXCEPT !.name = v]
  /\ calls' = Kept
  /\ UNCHANGED notAddProduct

setCategory(v) ==
  /\ currentPage = "addProduct"
  /\ addProduct.productType \in {"digital", "ai"}
  /\ ~addProduct.loading
  /\ addProduct' = [addProduct EXCEPT !.category = v]
  /\ calls' = Kept
  /\ UNCHANGED notAddProduct

setPrice(v) ==
  /\ currentPage = "addProduct"
  /\ addProduct.productType \in {"digital", "ai"}
  /\ ~addProduct.loading
  /\ addProduct' = [addProduct EXCEPT !.price = v]
  /\ calls' = Kept
  /\ UNCHANGED notAddProduct

setDescription(v) ==
  /\ currentPage = "addProduct"
  /\ addProduct.productType = "digital"
  /\ ~addProduct.loading
  /\ addProduct' = [addProduct EXCEPT !.description = v]
  /\ calls' = Kept
  /\ UNCHANGED notAddProduct

AddProductFileChange(f) ==
  /\ currentPage = "addProduct"
  /\ addProduct.productType = "digital"
  /\ ~addProduct.loading
  /\ addProduct' = [addProduct EXCEPT !.file = f, !.fileInput = f]
  /\ calls' = Kept
  /\ UNCHANGED notAddProduct

AddProductVideosChange(vs) ==
  /\ currentPage = "addProduct"
  /\ addProduct.productType = "ai"
  /\ ~addProduct.loading
  /\ addProduct' = [addProduct EXCEPT !.videos = vs, !.videosInput = vs]
  /\ calls' = Kept
  /\ UNCHANGED notAddProduct

\* A form that lets an empty price through.
AIFormValidNoPrice ==
  /\ addProduct.name # ""
  /\ addProduct.category # ""
  /\ addProduct.videosInput # <<>>

\* The browser's check of the AI form before the submit event: required
\* inputs are filled (the number input has no min).
AIFormValid ==
  /\ addProduct.name # ""
  /\ addProduct.category # ""
  /\ addProduct.videosInput # <<>>
  /\ addProduct.price # ""

\* Setters of a handler whose component is still mounted.
SetAddProduct(c, new) == IF c.live THEN new ELSE addProduct

\* A catch block without the finally block after it.
AddProductCatchNoFinally(c, e) ==
  SetAddProduct(c, [addProduct EXCEPT !.message = <<"Network error: ", e>>])

\* The catch and finally blocks.
AddProductCatch(c, e) ==
  SetAddProduct(c, [addProduct EXCEPT !.message = <<"Network error: ", e>>,
                                      !.loading = FALSE])

\* Submit of the AI form up to the first await: the phase-1 request.
handleAISubmit ==
  /\ currentPage = "addProduct"
  /\ addProduct.productType = "ai"
  /\ ~SubmitDisabled("addProduct")
  /\ AIFormValid
  /\ Len(Kept) < MaxCalls
  /\ addProduct' = [addProduct EXCEPT !.loading = TRUE, !.message = <<>>]
  /\ calls' = Append(Kept,
       NewCall("addProduct", "handleAISubmit", "fetch1",
               [name |-> addProduct.name, videos |-> addProduct.videos],
               <<[endpoint |-> "ai-training",
                  body |-> [product_name |-> addProduct.name,
                            product_category |-> addProduct.category,
                            price |-> JsonNumber(ParseFloat(addProduct.price)),
                            number_of_videos |-> Len(addProduct.videos)]]>>))
  /\ UNCHANGED notAddProduct

\* A handler that sends the phase-2 request as soon as the phase-1 response
\* arrives, without awaiting its body.
AIFetch1SettlesEager(i) ==
  /\ calls[i].handler = "handleAISubmit"
  /\ calls[i].pc = "fetch1"
  /\ \E s \in Statuses :
       calls' = [calls EXCEPT ![i] =
         [Headers(@, s, "json1") EXCEPT !.reqs = Append(@,
            [endpoint |-> "process-ai-product",
             body |-> [product_id |-> Absent,
                       product_name |-> calls[i].draft.name,
                       videos |-> AppendVideos(<<>>, calls[i].draft.videos)]])]]
  /\ UNCHANGED addProduct
  /\ UNCHANGED notAddProduct

\* await fetch(phase 1) settles: the response arrives, or fetch rejects.
AIFetch1Settles(i) ==
  /\ calls[i].handler = "handleAISubmit"
  /\ calls[i].pc = "fetch1"
  /\ \/ \E s \in Statuses :
          /\ calls' = [calls EXCEPT ![i] = Headers(@, s, "json1")]
          /\ UNCHANGED addProduct
     \/ \E e \in FetchErrors :
          /\ calls' = [calls EXCEPT ![i] = Rejected(@, e)]
          /\ addProduct' = AddProductCatch(calls[i], e)
  /\ UNCHANGED notAddProduct

\* A phase-2 request that carries the identifier of an earlier product.
ProcessRequestStale(c, productId) ==
  [endpoint |-> "process-ai-product",
   body |-> [product_id |-> "abc-123", product_name |-> c.draft.name,
             videos |-> AppendVideos(<<>>, c.draft.videos)]]

\* A phase-2 request built from the state cells of the form as they are when
\* the phase-1 body arrives, not from the values of the submission.
ProcessRequestFromState(c, productId) ==
  [endpoint |-> "process-ai-product",
   body |-> [product_id |-> productId, product_name |-> addProduct.name,
             videos |-> AppendVideos(<<>>, addProduct.videos)]]

\* The phase-2 request, built from the values the handler closed over.
ProcessRequest(c, productId) ==
  [endpoint |-> "process-ai-product",
   body |-> [product_id |-> productId, product_name |-> c.draft.name,
             videos |-> AppendVideos(<<>>, c.draft.videos)]]

\* await productResponse.json() settles; on success the phase-2 request.
AIJson1Settles(i) ==
  /\ calls[i].handler = "handleAISubmit"
  /\ calls[i].pc = "json1"
  /\ \/ \E b \in ProductBodies :
          IF b.success
          THEN /\ calls' = [calls EXCEPT ![i] =
                    [Parsed(@, "json", b) EXCEPT
                       !.pc = "fetch2",
                       !.reqs = Append(@, ProcessRequest(calls[i], b.product_id))]]
               /\ addProduct' = SetAddProduct(calls[i],
                    [addProduct EXCEPT !.message =
                       <<"Product created! Processing videos through AI pipeline...">>])
          ELSE /\ calls' = [calls EXCEPT ![i] =
                    Finish(Parsed(@, "json", b), "record_failed")]
               /\ addProduct' = SetAddProduct(calls[i],
                    [addProduct EXCEPT !.message =
                       <<"Error creating product: ", b.message>>,
                                       !.loading = FALSE])
     \/ /\ calls' = [calls EXCEPT ![i] =
             Finish(Parsed(@, "malformed", Absent), "network_error")]
        /\ addProduct' = AddProductCatch(calls[i], JsonError)
  /\ UNCHANGED notAddProduct

\* await fetch(phase 2) settles.
AIFetch2Settles(i) ==
  /\ calls[i].handler = "handleAISubmit"
  /\ calls[i].pc = "fetch2"
  /\ \/ \E s \in Statuses :
          /\ calls' = [calls EXCEPT ![i] = Headers(@, s, "json2")]
          /\ UNCHANGED addProduct
     \/ \E e \in FetchErrors :
          /\ calls' = [calls EXCEPT ![i] = Rejected(@, e)]
          /\ addProduct' = AddProductCatch(calls[i], e)
  /\ UNCHANGED notAddProduct

\* The success message of the AI form (a template string).
AISuccessMessage(d) ==
  <<"AI training product created and processed successfully! Course ID: ",
    d.course_id, " Videos processed: ", ToString(d.successful_videos), "/",
    ToString(d.total_videos), " Embeddings created: ",
    ToString(d.embeddings_created), " Root directory: ", d.root_directory>>

\* await aiResponse.json() settles.
AIJson2Settles(i) ==
  /\ calls[i].handler = "handleAISubmit"
  /\ calls[i].pc = "json2"
  /\ \/ \E b \in AIBodies(Len(calls[i].draft.videos)) :
          IF b.success
          THEN /\ calls' = [calls EXCEPT ![i] =
                    Finish(Parsed(@, "json", b), "processed")]
               /\ addProduct' = SetAddProduct(calls[i],
                    [addProduct EXCEPT !.message = AISuccessMessage(b.data),
                                       !.name = "", !.category = "",
                                       !.price = "", !.videos = <<>>,
                                       !.productType = "",
                                       !.fileInput = NoFile,
                                       !.videosInput = <<>>,
                                       !.loading = FALSE])
          ELSE /\ calls' = [calls EXCEPT ![i] =
                    Finish(Parsed(@, "json", b), "processing_failed")]
               /\ addProduct' = SetAddProduct(calls[i],
                    [addProduct EXCEPT !.message =
                       <<"Product created but AI processing failed: ", b.message>>,
                                       !.loading = FALSE])
     \/ /\ calls' = [calls EXCEPT ![i] =
             Finish(Parsed(@, "malformed", Absent), "network_error")]
        /\ addProduct' = AddProductCatch(calls[i], JsonError)
  /\ UNCHANGED notAddProduct

\* The browser's check of the digital form of the admin panel.
DigitalFormValid ==
  /\ addProduct.name # ""
  /\ addProduct.category # ""
  /\ addProduct.description # ""
  /\ addProduct.fileInput # NoFile
  /\ addProduct.price # ""

\* Submit of the digital form of the admin panel up to the await.
handleDigitalSubmit ==
  /\ currentPage = "addProduct"
  /\ addProduct.productType = "digital"
  /\ ~SubmitDisabled("addProduct")
  /\ DigitalFormValid
  /\ Len(Kept) < MaxCalls
  /\ addProduct' = [addProduct EXCEPT !.loading = TRUE, !.message = <<>>]
  /\ calls' = Append(Kept,
       NewCall("addProduct", "handleDigitalSubmit", "fetch",
               [name |-> addProduct.name, videos |-> <<>>],
               <<[endpoint |-> "products/digital",
                  body |-> [product_name |-> addProduct.name,
                            product_category |-> addProduct.category,
                            price |-> addProduct.price,
                            description |-> addProduct.description,
                            file |-> addProduct.file]]>>))
  /\ UNCHANGED notAddProduct

DigitalFetchSettles(i) ==
  /\ calls[i].handler = "handleDigitalSubmit"
  /\ calls[i].pc = "fetch"
  /\ \/ \E s \in Statuses :
          /\ calls' = [calls EXCEPT ![i] = Headers(@, s, "json")]
          /\ UNCHANGED addProduct
     \/ \E e \in FetchErrors :
          /\ calls' = [calls EXCEPT ![i] = Rejected(@, e)]
          /\ addProduct' = AddProductCatch(calls[i], e)
  /\ UNCHANGED notAddProduct

DigitalJsonSettles(i) ==
  /\ calls[i].handler = "handleDigitalSubmit"
  /\ calls[i].pc = "json"
  /\ \/ \E b \in DigitalBodies :
          IF b.success
          THEN /\ calls' = [calls EXCEPT ![i] =
                    Finish(Parsed(@, "json", b), "success")]
               /\ addProduct' = SetAddProduct(calls[i],
                    [addProduct EXCEPT !.message =
                       <<"Digital product created and uploaded successfully!">>,
                                       !.name = "", !.category = "",
                                       !.price = "", !.description = "",
                                       !.file = NoFile, !.productType = "",
                                       !.fileInput = NoFile,
                                       !.videosInput = <<>>,
                                       !.loading = FALSE])
          ELSE /\ calls' = [calls EXCEPT ![i] =
                    Finish(Parsed(@, "json", b), "server_failure")]
               /\ addProduct' = SetAddProduct(calls[i],
                    [addProduct EXCEPT !.message = <<"Error: ", b.message>>,
                                       !.loading = FALSE])
     \/ /\ calls' = [calls EXCEPT ![i] =
             Finish(Parsed(@, "malformed", Absent), "network_error")]
        /\ addProduct' = AddProductCatch(calls[i], JsonError)
  /\ UNCHANGED notAddProduct

----------------------------------------------------------------------------
\* UploadDigitalProduct.

InitUpload ==
  [formData |-> [product_name |-> "", product_category |-> "",
                 product_description |-> "", price |-> "",
                 product_file |-> NoFile],
   loading |-> FALSE, message |-> <<>>, responseData |-> Null,
   \* the file input of the document (uncontrolled)
   fileInput |-> NoFile]

UploadFields ==
  [product_name |-> TextValues, product_category |-> ShortTextValues,
   product_description |-> ShortTextValues, price |-> PriceValues]

\* The inputs of this page stay enabled while an upload runs.
UploadInputChange(name, value) ==
  /\ currentPage = "uploadDigitalProduct"
  /\ upload' = [upload EXCEPT !.formData[name] = value]
  /\ calls' = Kept
  /\ UNCHANGED notUpload

\* A cancelled file dialog empties the input and leaves the state cell.
UploadFileChange(f) ==
  /\ currentPage = "uploadDigitalProduct"
  /\ upload' = [upload EXCEPT
       !.fileInput = f,
       !.formData.product_file = IF f # NoFile THEN f ELSE @]
  /\ calls' = Kept
  /\ UNCHANGED notUpload

\* The browser's check of the form: required inputs, price with min="0".
UploadFormValid ==
  /\ upload.formData.product_name # ""
  /\ upload.formData.product_category # ""
  /\ upload.formData.product_description # ""
  /\ upload.formData.price # ""
  /\ PriceCents(upload.formData.price) >= 0
  /\ upload.fileInput # NoFile

SetUpload(c, new) == IF c.live THEN new ELSE upload

\* A catch block that reports as the server-failure branch does.
UploadCatchAsServer(c, e) ==
  SetUpload(c, [upload EXCEPT !.message = <<"Error: ", e>>,
                              !.loading = FALSE])

UploadCatch(c, e) ==
  SetUpload(c, [upload EXCEPT !.message = <<"Network error: ", e>>,
                              !.loading = FALSE])

\* A success branch that shows a product id of its own.
UploadSucceededOwnId(b) ==
  [InitUpload EXCEPT
     !.message = <<"Digital product uploaded successfully!">>,
     !.responseData = [b.data EXCEPT !.product_id = "abc-123"]]

\* The cells after the success branch (message, response data, form reset)
\* and the finally block.
UploadSucceeded(b) ==
  [InitUpload EXCEPT
     !.message = <<"Digital product uploaded successfully!">>,
     !.responseData = b.data]

UploadData ==
  [product_id : ProductIds, product_name : {"Intro to SQL"},
   file_size_mb : {2}, file_format : {"pdf"},
   product_location : {"gs://products/intro.pdf"}]

UploadBodies ==
  [success : {TRUE}, message : {Absent}, data : UploadData]
    \cup [success : {FALSE}, message : ServerMessages \cup {Absent},
          data : {Absent}]

\* handleSubmit of UploadDigitalProduct up to the await (or to its return).
UploadHandleSubmit ==
  /\ currentPage = "uploadDigitalProduct"
  /\ ~SubmitDisabled("uploadDigitalProduct")
  /\ UploadFormValid
  /\ Len(Kept) < MaxCalls
  /\ IF upload.formData.product_file = NoFile
     THEN /\ upload' = [upload EXCEPT
               !.message = <<"Error: Please select a product file">>,
               !.responseData = Null, !.loading = FALSE]
          /\ calls' = Append(Kept,
               Finish(NewCall("uploadDigitalProduct", "handleSubmit", "start",
                              upload.formData, <<>>), "validation_error"))
     ELSE /\ upload' = [upload EXCEPT
               !.message = <<"Uploading digital product...">>,
               !.responseData = Null, !.loading = TRUE]
          /\ calls' = Append(Kept,
               NewCall("uploadDigitalProduct", "handleSubmit", "fetch",
                       upload.formData,
                       <<[endpoint |-> "add-digital-product",
                          body |-> Actor @@ upload.formData]>>))
  /\ UNCHANGED notUpload

UploadFetchSettles(i) ==
  /\ calls[i].page = "uploadDigitalProduct"
  /\ calls[i].pc = "fetch"
  /\ \/ \E s \in Statuses :
          /\ calls' = [calls EXCEPT ![i] = Headers(@, s, "json")]
          /\ UNCHANGED upload
     \/ \E e \in FetchErrors :
          /\ calls' = [calls EXCEPT ![i] = Rejected(@, e)]
          /\ upload' = UploadCatch(calls[i], e)
  /\ UNCHANGED notUpload

UploadJsonSettles(i) ==
  /\ calls[i].page = "uploadDigitalProduct"
  /\ calls[i].pc = "json"
  /\ \/ \E b \in UploadBodies :
          IF b.success
          THEN /\ calls' = [calls EXCEPT ![i] =
                    Finish(Parsed(@, "json", b), "success")]
               /\ upload' = SetUpload(calls[i], UploadSucceeded(b))
          ELSE /\ calls' = [calls EXCEPT ![i] =
                    Finish(Parsed(@, "json", b), "server_failure")]
               /\ upload' = SetUpload(calls[i],
                    [upload EXCEPT
                       !.message = <<"Error: ",
                                     IF b.message = Absent
                                     THEN "Unknown error occurred"
                                     ELSE b.message>>,
                       !.loading = FALSE])
     \/ /\ calls' = [calls EXCEPT ![i] =
             Finish(Parsed(@, "malformed", Absent), "network_error")]
        /\ upload' = UploadCatch(calls[i], JsonError)
  /\ UNCHANGED notUpload

----------------------------------------------------------------------------
\* AddAIProduct (the one-request course page).

InitAIProduct ==
  [formData |-> [product_name |-> "", product_category |-> "",
                 suggestion_questions |-> "", price |-> "", videos |-> <<>>],
   loading |-> FALSE, message |-> <<>>, responseData |-> Null]

AIProductFields ==
  [product_name |-> TextValues, product_category |-> ShortTextValues,
   suggestion_questions |-> ShortTextValues, price |-> PriceValues]

\* The inputs of this page are disabled while a submission runs.
AIProductInputChange(name, value) ==
  /\ currentPage = "addAIProduct"
  /\ ~aiProduct.loading
  /\ aiProduct' = [aiProduct EXCEPT !.formData[name] = value]
  /\ calls' = Kept
  /\ UNCHANGED notAIProduct

\* The state cell always holds the selection of the file input.
AIProductVideosChange(vs) ==
  /\ currentPage = "addAIProduct"
  /\ ~aiProduct.loading
  /\ aiProduct' = [aiProduct EXCEPT !.formData.videos = vs]
  /\ calls' = Kept
  /\ UNCHANGED notAIProduct

\* The browser's check of the form: required inputs (the suggestion
\* questions are optional), price with min="0".
AIProductFormValid ==
  /\ aiProduct.formData.product_name # ""
  /\ aiProduct.formData.product_category # ""
  /\ aiProduct.formData.price # ""
  /\ PriceCents(aiProduct.formData.price) >= 0
  /\ aiProduct.formData.videos # <<>>

SetAIProduct(c, new) == IF c.live THEN new ELSE aiProduct

\* A catch block that also empties the form.
AIProductCatchResets(c, e) ==
  SetAIProduct(c, [InitAIProduct EXCEPT !.message = <<"Network error: ", e>>])

\* The catch and finally blocks.
AIProductCatch(c, e) ==
  SetAIProduct(c, [aiProduct EXCEPT !.message = <<"Network error: ", e>>,
                                    !.loading = FALSE])

\* One processed lesson of the response, with its list of k vector ids.
Item(k) == [lesson_title |-> k, vectors |-> [j \in 1..k |-> j]]

\* {item.vectors ? item.vectors.length : 0}: the count shown for one lesson
\* (a lesson without a list is modelled with the empty list).
VectorsCreated(item) == Len(item.vectors)

\* The sum of the counts shown for the lessons.
RECURSIVE SumVectors(_)
SumVectors(items) ==
  IF items = <<>> THEN 0
  ELSE VectorsCreated(Head(items)) + SumVectors(Tail(items))

\* The lessons of a response with k items.
Items(k) == [j \in 1..k |-> Item(j)]

\* The response to a course of n videos: the first k lessons; the total the
\* server reports is its own figure, equal to the sum of the lists or not.
AIProductData(n) ==
  {[product_id |-> id, number_of_videos |-> k,
    total_vectors |-> SumVectors(Items(k)) + d, items |-> Items(k)] :
     id \in ProductIds, k \in 0..n, d \in {0, 1}}

AIProductBodies(n) ==
  [success : {TRUE}, message : {Absent}, data : AIProductData(n)]
    \cup [success : {FALSE}, message : ServerMessages \cup {Absent},
          data : {Absent}]

\* A handleSubmit that leaves the response data of the earlier submission
\* in place.
AIProductHandleSubmitKeepsData ==
  /\ currentPage = "addAIProduct"
  /\ ~SubmitDisabled("addAIProduct")
  /\ AIProductFormValid
  /\ Len(Kept) < MaxCalls
  /\ aiProduct' = [aiProduct EXCEPT
       !.message = <<"Processing AI training product... This may take several minutes.">>,
       !.loading = TRUE]
  /\ calls' = Append(Kept,
       NewCall("addAIProduct", "handleSubmit", "fetch", aiProduct.formData,
               <<[endpoint |-> "add-ai-train-product",
                  body |-> Actor @@ [aiProduct.formData EXCEPT
                              !.videos = AppendVideos(<<>>, @)]]>>))
  /\ UNCHANGED notAIProduct

\* handleSubmit of AddAIProduct up to the await.
AIProductHandleSubmit ==
  /\ currentPage = "addAIProduct"
  /\ ~SubmitDisabled("addAIProduct")
  /\ AIProductFormValid
  /\ Len(Kept) < MaxCalls
  /\ aiProduct' = [aiProduct EXCEPT
       !.message = <<"Processing AI training product... This may take several minutes.">>,
       !.responseData = Null, !.loading = TRUE]
  /\ calls' = Append(Kept,
       NewCall("addAIProduct", "handleSubmit", "fetch", aiProduct.formData,
               <<[endpoint |-> "add-ai-train-product",
                  body |-> Actor @@ [aiProduct.formData EXCEPT
                              !.videos = AppendVideos(<<>>, @)]]>>))
  /\ UNCHANGED notAIProduct

AIProductFetchSettles(i) ==
  /\ calls[i].page = "addAIProduct"
  /\ calls[i].pc = "fetch"
  /\ \/ \E s \in Statuses :
          /\ calls' = [calls EXCEPT ![i] = Headers(@, s, "json")]
          /\ UNCHANGED aiProduct
     \/ \E e \in FetchErrors :
          /\ calls' = [calls EXCEPT ![i] = Rejected(@, e)]
          /\ aiProduct' = AIProductCatch(calls[i], e)
  /\ UNCHANGED notAIProduct

AIProductJsonSettles(i) ==
  /\ calls[i].page = "addAIProduct"
  /\ calls[i].pc = "json"
  /\ \/ \E b \in AIProductBodies(Len(calls[i].draft.videos)) :
          IF b.success
          THEN /\ calls' = [calls EXCEPT ![i] =
                    Finish(Parsed(@, "json", b), "success")]
               /\ aiProduct' = SetAIProduct(calls[i],
                    [InitAIProduct EXCEPT
                       !.message = <<"AI training product created and processed successfully!">>,
                       !.responseData = b.data])
          ELSE /\ calls' = [calls EXCEPT ![i] =
                    Finish(Parsed(@, "json", b), "server_failure")]
               /\ aiProduct' = SetAIProduct(calls[i],
                    [aiProduct EXCEPT
                       !.message = <<"Error: ",
                                     IF b.message = Absent
                                     THEN "Unknown error occurred"
                                     ELSE b.message>>,
                       !.loading = FALSE])
     \/ /\ calls' = [calls EXCEPT ![i] =
             Finish(Parsed(@, "malformed", Absent), "network_error")]
        /\ aiProduct' = AIProductCatch(calls[i], JsonError)
  /\ UNCHANGED notAIProduct

----------------------------------------------------------------------------
\* SearchDigitalProduct.

\* parseInt of the text of the number input, then toString ("NaN" for the
\* emptied field).
NumResultsValues == {"0", "5", "50", "51", "NaN"}

\* min="1" max="50" of the number inputs: the texts the browser accepts.
LimitInRange(n) == n \in {ToString(k) : k \in 1..50}

InitSearch ==
  [searchQuery |-> "", numResults |-> "5", loading |-> FALSE,
   message |-> <<>>, searchResults |-> Null]

setSearchQuery(v) ==
  /\ currentPage = "searchDigitalProduct"
  /\ search' = [search EXCEPT !.searchQuery = v]
  /\ calls' = Kept
  /\ UNCHANGED notSearch

setNumResults(n) ==
  /\ currentPage = "searchDigitalProduct"
  /\ search' = [search EXCEPT !.numResults = n]
  /\ calls' = Kept
  /\ UNCHANGED notSearch

\* The browser's check of the form: the query is required; the number
\* input is not, and it is empty when its value is NaN.
SearchFormValid ==
  /\ search.searchQuery # ""
  /\ search.numResults = "NaN" \/ LimitInRange(search.numResults)

SetSearch(c, new) == IF c.live THEN new ELSE search

\* One hit of a result list, with its score in percent.
Hit(k, score) == [product_id |-> k, similarity_score |-> score]

\* Result lists of at most two hits, in the order of the backend; the
\* scores of two hits may be tied.
ResultLists ==
  {<<>>, <<Hit(1, 90)>>, <<Hit(1, 90), Hit(2, 80)>>, <<Hit(2, 80), Hit(1, 80)>>}

\* A rendering that orders the cards by product id.
RenderResultsSorted(data) ==
  IF data = Null \/ data.results = <<>>
  THEN <<>>
  ELSE LET n == Len(data.results)
           at(i) == CHOOSE j \in 1..n :
                      Cardinality({l \in 1..n : data.results[l].product_id
                                                  < data.results[j].product_id})
                        = i - 1
       IN [i \in 1..n |-> [rank |-> i, result |-> data.results[at(i)]]]

\* renderResults of both search pages: nothing without results, else one
\* card per element of results, in array order, numbered index + 1 (the
\* index of map() counts from 0).
RenderResults(data) ==
  IF data = Null \/ data.results = <<>>
  THEN <<>>
  ELSE [i \in 1..Len(data.results) |->
          [rank |-> (i - 1) + 1, result |-> data.results[i]]]

SearchBodies ==
  {[success |-> TRUE, message |-> Absent, total_results |-> Len(r),
    results |-> r] : r \in ResultLists}
    \cup [success : {FALSE}, message : ServerMessages \cup {Absent},
          total_results : {0}, results : {<<>>}]

\* A failure reported with the sentence of a search without hits.
SearchFailureAsNoHits(b) ==
  <<"Found ", "0", " digital products matching your search">>

\* The failure message of both search pages.
SearchFailureMessage(b) ==
  <<"Error: ", IF b.message = Absent THEN "Search failed" ELSE b.message>>

\* handleSearch up to the await (or to its return).
handleSearch ==
  /\ currentPage = "searchDigitalProduct"
  /\ ~SubmitDisabled("searchDigitalProduct")
  /\ SearchFormValid
  /\ Len(Kept) < MaxCalls
  /\ IF Trim(search.searchQuery) = ""
     THEN /\ search' = [search EXCEPT
               !.message = <<"Error: Please enter a search query">>,
               !.searchResults = Null, !.loading = FALSE]
          /\ calls' = Append(Kept,
               Finish(NewCall("searchDigitalProduct", "handleSearch", "start",
                              [query |-> search.searchQuery], <<>>),
                      "validation_error"))
     ELSE /\ search' = [search EXCEPT !.message = <<>>,
                                      !.searchResults = Null,
                                      !.loading = TRUE]
          /\ calls' = Append(Kept,
               NewCall("searchDigitalProduct", "handleSearch", "fetch",
                       [query |-> search.searchQuery],
                       <<[endpoint |-> "search-digital-products",
                          body |-> [query |-> search.searchQuery,
                                    n |-> search.numResults]]>>))
  /\ UNCHANGED notSearch

SearchFetchSettles(i) ==
  /\ calls[i].page = "searchDigitalProduct"
  /\ calls[i].pc = "fetch"
  /\ \/ \E s \in Statuses :
          /\ calls' = [calls EXCEPT ![i] = Headers(@, s, "json")]
          /\ UNCHANGED search
     \/ \E e \in FetchErrors :
          /\ calls' = [calls EXCEPT ![i] = Rejected(@, e)]
          /\ search' = SetSearch(calls[i],
               [search EXCEPT !.message = <<"Network error: ", e>>,
                              !.searchResults = Null, !.loading = FALSE])
  /\ UNCHANGED notSearch

SearchJsonSettles(i) ==
  /\ calls[i].page = "searchDigitalProduct"
  /\ calls[i].pc = "json"
  /\ \/ \E b \in SearchBodies :
          IF b.success
          THEN /\ calls' = [calls EXCEPT ![i] =
                    Finish(Parsed(@, "json", b), "success")]
               /\ search' = SetSearch(calls[i],
                    [search EXCEPT
                       !.message = <<"Found ", ToString(b.total_results),
                                     " digital products matching your search">>,
                       !.searchResults = b, !.loading = FALSE])
          ELSE /\ calls' = [calls EXCEPT ![i] =
                    Finish(Parsed(@, "json", b), "server_failure")]
               /\ search' = SetSearch(calls[i],
                    [search EXCEPT !.message = SearchFailureMessage(b),
                                   !.searchResults = Null,
                                   !.loading = FALSE])
     \/ /\ calls' = [calls EXCEPT ![i] =
             Finish(Parsed(@, "malformed", Absent), "network_error")]
        /\ search' = SetSearch(calls[i],
             [search EXCEPT !.message = <<"Network error: ", JsonError>>,
                            !.searchResults = Null, !.loading = FALSE])
  /\ UNCHANGED notSearch

----------------------------------------------------------------------------
\* VectorSearch.

ProductIdsValues == {"", " , ", "1,2"}
QuestionValues == {"", "   ", "What is SQL?"}

InitVector ==
  [formData |-> [question |-> "", product_ids |-> "", n |-> "5"],
   loading |-> FALSE, message |-> <<>>, searchResults |-> Null]

VectorFields ==
  [question |-> QuestionValues, product_ids |-> ProductIdsValues,
   n |-> {"", "5", "51"}]

VectorInputChange(name, value) ==
  /\ currentPage = "vectorSearch"
  /\ vector' = [vector EXCEPT !.formData[name] = value]
  /\ calls' = Kept
  /\ UNCHANGED notVector

\* The browser's check of the form: the three inputs are required, the
\* number within min and max.
VectorFormValid ==
  /\ vector.formData.question # ""
  /\ vector.formData.product_ids # ""
  /\ vector.formData.n # ""
  /\ LimitInRange(vector.formData.n)

SetVector(c, new) == IF c.live THEN new ELSE vector

VectorCatch(c, e) ==
  SetVector(c, [vector EXCEPT !.message = <<"Network error: ", e>>,
                              !.loading = FALSE])

\* String.prototype.trim on the product-id texts.
TrimIds(s) == IF s = " , " THEN "," ELSE s

\* The validation message of handleSubmit, <<>> when the inputs pass.
VectorValidation ==
  IF Trim(vector.formData.question) = ""
  THEN <<"Error: Please enter a search question">>
  ELSE IF TrimIds(vector.formData.product_ids) = ""
       THEN <<"Error: Please enter at least one product ID">>
       ELSE <<>>

\* A handleSubmit that starts without clearing the stored results.
VectorHandleSubmitKeepsResults ==
  /\ currentPage = "vectorSearch"
  /\ ~SubmitDisabled("vectorSearch")
  /\ VectorFormValid
  /\ Len(Kept) < MaxCalls
  /\ IF VectorValidation # <<>>
     THEN /\ vector' = [vector EXCEPT !.message = VectorValidation,
                                      !.loading = FALSE]
          /\ calls' = Append(Kept,
               Finish(NewCall("vectorSearch", "handleSubmit", "start",
                              vector.formData, <<>>), "validation_error"))
     ELSE /\ vector' = [vector EXCEPT !.message = <<>>, !.loading = TRUE]
          /\ calls' = Append(Kept,
               NewCall("vectorSearch", "handleSubmit", "fetch",
                       vector.formData,
                       <<[endpoint |-> "search-vectors",
                          body |-> vector.formData]>>))
  /\ UNCHANGED notVector

\* handleSubmit of VectorSearch up to the await (or to its return).
VectorHandleSubmit ==
  /\ currentPage = "vectorSearch"
  /\ ~SubmitDisabled("vectorSearch")
  /\ VectorFormValid
  /\ Len(Kept) < MaxCalls
  /\ IF VectorValidation # <<>>
     THEN /\ vector' = [vector EXCEPT !.message = VectorValidation,
                                      !.searchResults = Null,
                                      !.loading = FALSE]
          /\ calls' = Append(Kept,
               Finish(NewCall("vectorSearch", "handleSubmit", "start",
                              vector.formData, <<>>), "validation_error"))
     ELSE /\ vector' = [vector EXCEPT !.message = <<>>,
                                      !.searchResults = Null,
                                      !.loading = TRUE]
          /\ calls' = Append(Kept,
               NewCall("vectorSearch", "handleSubmit", "fetch",
                       vector.formData,
                       <<[endpoint |-> "search-vectors",
                          body |-> vector.formData]>>))
  /\ UNCHANGED notVector

VectorFetchSettles(i) ==
  /\ calls[i].page = "vectorSearch"
  /\ calls[i].pc = "fetch"
  /\ \/ \E s \in Statuses :
          /\ calls' = [calls EXCEPT ![i] = Headers(@, s, "json")]
          /\ UNCHANGED vector
     \/ \E e \in FetchErrors :
          /\ calls' = [calls EXCEPT ![i] = Rejected(@, e)]
          /\ vector' = VectorCatch(calls[i], e)
  /\ UNCHANGED notVector

VectorJsonSettles(i) ==
  /\ calls[i].page = "vectorSearch"
  /\ calls[i].pc = "json"
  /\ \/ \E b \in SearchBodies :
          IF b.success
          THEN /\ calls' = [calls EXCEPT ![i] =
                    Finish(Parsed(@, "json", b), "success")]
               /\ vector' = SetVector(calls[i],
                    [vector EXCEPT
                       !.message = <<"Found ", ToString(b.total_results),
                                     " results for your search">>,
                       !.searchResults = b, !.loading = FALSE])
          ELSE /\ calls' = [calls EXCEPT ![i] =
                    Finish(Parsed(@, "json", b), "server_failure")]
               /\ vector' = SetVector(calls[i],
                    [vector EXCEPT !.message = SearchFailureMessage(b),
                                   !.loading = FALSE])
     \/ /\ calls' = [calls EXCEPT ![i] =
             Finish(Parsed(@, "malformed", Absent), "network_error")]
        /\ vector' = VectorCatch(calls[i], JsonError)
  /\ UNCHANGED notVector

----------------------------------------------------------------------------
\* ViewTable (the table viewer, the first page of the panel).

notViewTable ==
  <<currentPage, addProduct, upload, aiProduct, search, vector, localStorage>>

\* Two of the tables of the select, "" for its placeholder option.
Tables == {"users", "products"}

InitViewTable ==
  [selectedTable |-> "", tableData |-> <<>>, loading |-> FALSE, error |-> ""]

\* The rows the backend returns for a table: a table may be empty.
RowsOf(t) == {<<>>, <<[table |-> t, id |-> 1]>>}

\* Bodies of the view_table endpoint for table t.
TableBodies(t) ==
  [data : RowsOf(t), error : {Absent}]
    \cup [data : {Absent}, error : {Absent, "Unknown table"}]

\* The select is never disabled.
handleTableChange(t) ==
  /\ currentPage = "viewTable"
  /\ viewTable' = [viewTable EXCEPT !.selectedTable = t, !.tableData = <<>>,
                                    !.error = ""]
  /\ calls' = Kept
  /\ UNCHANGED notViewTable

\* The View button (disabled without a selection and while loading):
\* fetchTableData up to its await.
handleView ==
  /\ currentPage = "viewTable"
  /\ viewTable.selectedTable # ""
  /\ ~viewTable.loading
  /\ Len(Kept) < MaxCalls
  /\ viewTable' = [viewTable EXCEPT !.loading = TRUE, !.error = ""]
  /\ calls' = Append(Kept,
       NewCall("viewTable", "fetchTableData", "fetch",
               [table |-> viewTable.selectedTable],
               <<[endpoint |-> "view_table",
                  body |-> [table |-> viewTable.selectedTable]]>>))
  /\ UNCHANGED notViewTable

SetViewTable(c, new) == IF c.live THEN new ELSE viewTable

TableCatch(c) ==
  SetViewTable(c, [viewTable EXCEPT
    !.error = "Network error. Please check if backend is running.",
    !.loading = FALSE])

TableFetchSettles(i) ==
  /\ calls[i].handler = "fetchTableData"
  /\ calls[i].pc = "fetch"
  /\ \/ \E st \in Statuses :
          /\ calls' = [calls EXCEPT ![i] = Headers(@, st, "json")]
          /\ UNCHANGED viewTable
     \/ \E e \in FetchErrors :
          /\ calls' = [calls EXCEPT ![i] = Rejected(@, e)]
          /\ viewTable' = TableCatch(calls[i])
  /\ UNCHANGED notViewTable

\* await response.json() settles; response.ok decides the branch.
TableJsonSettles(i) ==
  /\ calls[i].handler = "fetchTableData"
  /\ calls[i].pc = "json"
  /\ \/ \E b \in TableBodies(calls[i].reqs[1].body.table) :
          IF calls[i].resps[Len(calls[i].resps)].status = 200
          THEN /\ calls' = [calls EXCEPT ![i] =
                    Finish(Parsed(@, "json", b), "success")]
               /\ viewTable' = SetViewTable(calls[i],
                    [viewTable EXCEPT
                       !.tableData = IF b.data = Absent THEN <<>> ELSE b.data,
                       !.loading = FALSE])
          ELSE /\ calls' = [calls EXCEPT ![i] =
                    Finish(Parsed(@, "json", b), "server_failure")]
               /\ viewTable' = SetViewTable(calls[i],
                    [viewTable EXCEPT
                       !.error = IF b.error = Absent
                                 THEN "Failed to fetch data" ELSE b.error,
                       !.loading = FALSE])
     \/ /\ calls' = [calls EXCEPT ![i] =
             Finish(Parsed(@, "malformed", Absent), "network_error")]
        /\ viewTable' = TableCatch(calls[i])
  /\ UNCHANGED notViewTable

----------------------------------------------------------------------------
\* The panel: one page is mounted at a time.

Pages == {"viewTable", "addProduct", "addAIProduct", "vectorSearch",
          "uploadDigitalProduct", "searchDigitalProduct"}

\* A sidebar button: the page shown is unmounted (its state is dropped, its
\* running handlers go on without it) and page p is mounted.
setCurrentPage(p) ==
  /\ p # currentPage
  /\ currentPage' = p
  /\ addProduct' = InitAddProduct
  /\ upload' = InitUpload
  /\ aiProduct' = InitAIProduct
  /\ search' = InitSearch
  /\ vector' = InitVector
  /\ calls' = [k \in DOMAIN Kept |->
                 IF Kept[k].live
                 THEN [Kept[k] EXCEPT !.live = FALSE,
                                      !.leftWith = Len(Kept[k].reqs)]
                 ELSE Kept[k]]
  /\ viewTable' = InitViewTable
  /\ UNCHANGED localStorage

\* A sidebar button pressed while no handler of the page runs.
IdleNavigate(p) ==
  /\ \A k \in DOMAIN calls : ~Running(calls[k])
  /\ setCurrentPage(p)

----------------------------------------------------------------------------

Init ==
  /\ currentPage = "viewTable"
  /\ addProduct = InitAddProduct
  /\ upload = InitUpload
  /\ aiProduct = InitAIProduct
  /\ search = InitSearch
  /\ vector = InitVector
  /\ calls = <<>>
  /\ localStorage \in StoredSessions
  /\ viewTable = InitViewTable

Next ==
  \/ \E p \in Pages : IdleNavigate(p)
  \/ \E t \in {"digital", "ai"} : setProductType(t)
  \/ \E v \in TextValues : setName(v)
  \/ \E v \in ShortTextValues : setCategory(v)
  \/ \E v \in PriceValues : setPrice(v)
  \/ \E v \in ShortTextValues : setDescription(v)
  \/ \E f \in Files \cup {NoFile} : AddProductFileChange(f)
  \/ \E vs \in VideoLists : AddProductVideosChange(vs)
  \/ handleAISubmit
  \/ handleDigitalSubmit
  \/ \E i \in DOMAIN calls : DigitalFetchSettles(i)
  \/ \E i \in DOMAIN calls : DigitalJsonSettles(i)
  \/ \E i \in DOMAIN calls : AIFetch1Settles(i)
  \/ \E i \in DOMAIN calls : AIJson1Settles(i)
  \/ \E i \in DOMAIN calls : AIFetch2Settles(i)
  \/ \E i \in DOMAIN calls : AIJson2Settles(i)
  \/ \E name \in DOMAIN UploadFields :
        \E value \in UploadFields[name] : UploadInputChange(name, value)
  \/ \E f \in Files \cup {NoFile} : UploadFileChange(f)
  \/ UploadHandleSubmit
  \/ \E i \in DOMAIN calls : UploadFetchSettles(i)
  \/ \E i \in DOMAIN calls : UploadJsonSettles(i)
  \/ \E name \in DOMAIN AIProductFields :
        \E value \in AIProductFields[name] : AIProductInputChange(name, value)
  \/ \E vs \in VideoLists : AIProductVideosChange(vs)
  \/ AIProductHandleSubmit
  \/ \E i \in DOMAIN calls : AIProductFetchSettles(i)
  \/ \E i \in DOMAIN calls : AIProductJsonSettles(i)
  \/ \E v \in TextValues : setSearchQuery(v)
  \/ \E n \in NumResultsValues : setNumResults(n)
  \/ handleSearch
  \/ \E i \in DOMAIN calls : SearchFetchSettles(i)
  \/ \E i \in DOMAIN calls : SearchJsonSettles(i)
  \/ \E name \in DOMAIN VectorFields :
        \E value \in VectorFields[name] : VectorInputChange(name, value)
  \/ VectorHandleSubmit
  \/ \E i \in DOMAIN calls : VectorFetchSettles(i)
  \/ \E i \in DOMAIN calls : VectorJsonSettles(i)

Spec == Init /\ [][Next]_vars

\* The panel with its sidebar free: a page can be left while one of its
\* handlers runs.  The two-phase course form and the sidebar.
NavPages == {"addProduct", "viewTable"}

\* A submission started when no earlier run is still outstanding.
NavSubmit ==
  /\ \A k \in DOMAIN calls : ~Running(calls[k])
  /\ handleAISubmit

NavNext ==
  \/ \E p \in NavPages : setCurrentPage(p)
  \/ setProductType("ai")
  \/ \E v \in {"", "Intro to SQL"} : setName(v)
  \/ setCategory("Database")
  \/ setPrice("19.99")
  \/ \E vs \in VideoLists : AddProductVideosChange(vs)
  \/ NavSubmit
  \/ \E i \in DOMAIN calls : AIFetch1Settles(i)
  \/ \E i \in DOMAIN calls : AIJson1Settles(i)
  \/ \E i \in DOMAIN calls : AIFetch2Settles(i)
  \/ \E i \in DOMAIN calls : AIJson2Settles(i)

NavSpec == Init /\ [][NavNext]_vars

\* The table viewer alone: the page the panel starts on.
TableNext ==
  \/ \E t \in Tables \cup {""} : handleTableChange(t)
  \/ handleView
  \/ \E i \in DOMAIN calls : TableFetchSettles(i)
  \/ \E i \in DOMAIN calls : TableJsonSettles(i)

TableSpec == Init /\ [][TableNext]_vars

----------------------------------------------------------------------------
\* Vocabulary of the properties.

\* A finished run whose page is still mounted: its result is on display.
Observed(c) == c.live /\ c.pc = "done"

\* A response that reports a failure: no response at all, an unreadable
\* body, a status outside 2xx, or a body whose success flag is not set.
Failing(r) ==
  \/ r.kind \in {"transport", "malformed"}
  \/ r.status # 200
  \/ (r.kind = "json" /\ ~r.body.success)

LastResp(c) == c.resps[Len(c.resps)]

\* The requests of a run whose response (or rejection) is not complete yet.
Outstanding(c) ==
  Len(c.reqs) - Cardinality({j \in DOMAIN c.resps : c.resps[j].kind # "headers"})

\* The first piece of the success message of each page.
SuccessHeads ==
  {"Digital product created and uploaded successfully!",
   "AI training product created and processed successfully! Course ID: ",
   "Digital product uploaded successfully!",
   "AI training product created and processed successfully!",
   "Found "}

ShowsSuccess(page) ==
  MessageOf(page) # <<>> /\ Head(MessageOf(page)) \in SuccessHeads

\* The pieces of a message, as a set.
Pieces(m) == {m[k] : k \in DOMAIN m}

\* C1: in handleAISubmit, once phase 1 has failed (transport error,
\* unparsable body, HTTP 500, success flag false) the run has issued no
\* phase-2 request.
C1_NoPhase2AfterFailedPhase1 ==
  \A k \in DOMAIN calls :
    (/\ calls[k].handler = "handleAISubmit"
     /\ Len(calls[k].resps) >= 1
     /\ Failing(calls[k].resps[1]))
      => RequestsTo(calls[k], "process-ai-product") = <<>>

\* C2: in handleAISubmit the phase-2 request exists only once the phase-1
\* response is received and parsed, and at most one of the two requests is
\* outstanding.
C2_Phase1BeforePhase2 ==
  \A k \in DOMAIN calls :
    calls[k].handler = "handleAISubmit" =>
      /\ Len(calls[k].reqs) <= 2
      /\ Len(calls[k].reqs) = 2 =>
           /\ calls[k].reqs[1].endpoint = "ai-training"
           /\ calls[k].reqs[2].endpoint = "process-ai-product"
           /\ Len(calls[k].resps) >= 1
           /\ calls[k].resps[1].kind = "json"
      /\ Outstanding(calls[k]) <= 1

C2_Witness ==
  \E k \in DOMAIN calls :
    /\ calls[k].handler = "handleAISubmit"
    /\ calls[k].pc = "fetch2"
    /\ Outstanding(calls[k]) = 1

\* C3: when phase 1 succeeded and phase 2 failed, the message on display
\* tells that the product record was created.
C3_Phase2FailureTellsRecordCreated ==
  \A k \in DOMAIN calls :
    (/\ calls[k].handler = "handleAISubmit"
     /\ Observed(calls[k])
     /\ Len(calls[k].resps) = 2
     /\ ~Failing(calls[k].resps[1])
     /\ Failing(calls[k].resps[2]))
      => /\ addProduct.message # <<>>
         /\ Head(addProduct.message) = "Product created but AI processing failed: "

\* C4: every mounted form has at most one handler run in progress, and while
\* one is in progress its loading cell is set (the submit button is disabled).
C4_OneRunPerForm ==
  \A p \in {"addProduct", "addAIProduct", "vectorSearch",
            "uploadDigitalProduct", "searchDigitalProduct"} :
    LET runs == {k \in DOMAIN calls :
                   calls[k].page = p /\ calls[k].live /\ Running(calls[k])}
    IN /\ Cardinality(runs) <= 1
       /\ runs # {} => LoadingOf(p)

C4_Witness ==
  \E k \in DOMAIN calls :
    /\ calls[k].page = "uploadDigitalProduct"
    /\ calls[k].pc = "json"
    /\ upload.loading
    /\ upload.formData.product_name # calls[k].draft.product_name

\* C5: a run issues at most one request to each endpoint, and a run that
\* ended in a failure has no request left outstanding: nothing is sent again.
C5_NoAutomaticRetry ==
  \A k \in DOMAIN calls :
    /\ \A j1, j2 \in DOMAIN calls[k].reqs :
         calls[k].reqs[j1].endpoint = calls[k].reqs[j2].endpoint => j1 = j2
    /\ (calls[k].pc = "done" /\ StatusOf(calls[k]) # "success")
         => Outstanding(calls[k]) = 0

C5_Witness ==
  \E k \in DOMAIN calls :
    /\ calls[k].handler = "handleAISubmit"
    /\ calls[k].pc = "done"
    /\ Len(calls[k].reqs) = 2
    /\ LastResp(calls[k]).kind = "transport"

\* C6: a response with a status outside 2xx or with success = false leaves
\* no success message and no result data on display, and its message, when
\* it has one, is part of the message shown.
C6_FailureResponseTreatedAsFailure ==
  \A k \in DOMAIN calls :
    (/\ Observed(calls[k])
     /\ Len(calls[k].resps) >= 1
     /\ LastResp(calls[k]).kind = "json"
     /\ Failing(LastResp(calls[k])))
      => /\ ~ShowsSuccess(calls[k].page)
         /\ ResultDataOf(calls[k].page) = Null
         /\ LastResp(calls[k]).body.message # Absent
              => LastResp(calls[k]).body.message
                   \in Pieces(MessageOf(calls[k].page))

\* C7: the upload page shows its success message exactly when the response
\* body carries the success flag, and then the details on display are the
\* data of that response (its product id, size, format, location).
C7_DigitalSucceededIffFlag ==
  \A k \in DOMAIN calls :
    (calls[k].page = "uploadDigitalProduct" /\ Observed(calls[k])) =>
      LET flagged == /\ Len(calls[k].resps) = 1
                     /\ LastResp(calls[k]).kind = "json"
                     /\ LastResp(calls[k]).body.success
      IN /\ ShowsSuccess("uploadDigitalProduct") <=> flagged
         /\ flagged => upload.responseData = LastResp(calls[k]).body.data
         /\ ~flagged => upload.responseData = Null

C7_Witness ==
  \E k \in DOMAIN calls :
    /\ calls[k].page = "uploadDigitalProduct"
    /\ Observed(calls[k])
    /\ ShowsSuccess("uploadDigitalProduct")
    /\ upload.responseData.product_id = "xyz-789"

\* The sentences of the handlers' own input checks.
ValidationMessages ==
  {<<"Error: Please select a product file">>,
   <<"Error: Please enter a search query">>,
   <<"Error: Please enter a search question">>,
   <<"Error: Please enter at least one product ID">>}

\* The cause a failure message stands for, read off the message alone.
CauseOf(m) ==
  CASE m = <<>> -> "none"
    [] m \in ValidationMessages -> "validation"
    [] Head(m) = "Network error: " -> "network"
    [] Head(m) \in {"Error: ", "Error creating product: ",
                    "Product created but AI processing failed: "} -> "server"
    [] OTHER -> "none"

\* The cause of the failure of a finished run, read off what happened to it.
FailureOf(c) ==
  CASE c.reqs = <<>> -> "validation"
    [] LastResp(c).kind \in {"transport", "malformed"} -> "network"
    [] ~LastResp(c).body.success -> "server"
    [] OTHER -> "none"

C9_ToneFunctionOfStatus ==
  \A k \in DOMAIN calls :
    (Observed(calls[k]) /\ calls[k].shown.status = StatusOf(calls[k]))
      => calls[k].shown.tone = ToneOf(calls[k].page, MessageOf(calls[k].page))

\* A draft that passes the input rules: text fields not blank, price a
\* number that is not negative, the file or the videos present.
ValidRequest(r) ==
  CASE r.endpoint = "add-digital-product" ->
         /\ Trim(r.body.product_name) # ""
         /\ Trim(r.body.product_category) # ""
         /\ Trim(r.body.product_description) # ""
         /\ r.body.price # "" /\ PriceCents(r.body.price) >= 0
         /\ r.body.product_file # NoFile
    [] r.endpoint = "add-ai-train-product" ->
         /\ Trim(r.body.product_name) # ""
         /\ Trim(r.body.product_category) # ""
         /\ r.body.price # "" /\ PriceCents(r.body.price) >= 0
         /\ r.body.videos # <<>>
    [] r.endpoint = "products/digital" ->
         /\ Trim(r.body.product_name) # ""
         /\ Trim(r.body.product_category) # ""
         /\ Trim(r.body.description) # ""
         /\ r.body.price # "" /\ PriceCents(r.body.price) >= 0
         /\ r.body.file # NoFile
    [] r.endpoint = "ai-training" ->
         /\ Trim(r.body.product_name) # ""
         /\ Trim(r.body.product_category) # ""
         /\ r.body.price # "null" /\ PriceCents(r.body.price) >= 0
         /\ r.body.number_of_videos > 0
    [] OTHER -> TRUE

\* C10: no request of an upload form carries an invalid draft.
C10_InvalidDraftNeverSent ==
  \A k \in DOMAIN calls :
    \A j \in DOMAIN calls[k].reqs : ValidRequest(calls[k].reqs[j])

\* C11: the video parts of a course request are the files of the operator's
\* selection, one part per file under the field name "videos", the i-th part
\* holding the i-th selected file.
C11_VideoPartsInSelectionOrder ==
  \A k \in DOMAIN calls :
    \A j \in DOMAIN calls[k].reqs :
      calls[k].reqs[j].endpoint \in {"process-ai-product", "add-ai-train-product"}
        => LET parts == calls[k].reqs[j].body.videos
               selected == calls[k].draft.videos
           IN /\ Len(parts) = Len(selected)
              /\ \A i \in DOMAIN parts :
                   parts[i] = [name |-> "videos", value |-> selected[i]]

C11_Witness ==
  \E k \in DOMAIN calls :
    /\ calls[k].handler = "handleAISubmit"
    /\ Len(calls[k].reqs) = 2
    /\ calls[k].draft.videos = <<"v2.mp4", "v1.mp4">>
    /\ Len(calls[k].reqs[2].body.videos) = 2

\* The number of videos of the draft a run submitted.
Submitted(c) == Len(c.draft.videos)

\* The number of items a processing response reports as processed.
Returned(c) ==
  IF c.handler = "handleAISubmit"
  THEN LastResp(c).body.data.successful_videos
  ELSE Len(LastResp(c).body.data.items)

\* A finished course run whose last response carries the success flag.
CourseProcessed(c) ==
  /\ Observed(c)
  /\ \/ c.handler = "handleAISubmit" /\ Len(c.resps) = 2
     \/ c.page = "addAIProduct" /\ Len(c.resps) = 1
  /\ LastResp(c).kind = "json"
  /\ LastResp(c).body.success

\* C12: a processing response with fewer processed items than videos
\* submitted is not reported with the message of a full success.
C12_FewerItemsReportedPartial ==
  \A k \in DOMAIN calls :
    (CourseProcessed(calls[k]) /\ Returned(calls[k]) < Submitted(calls[k]))
      => ~ShowsSuccess(calls[k].page)

\* C13: when the processing response has as many processed items as videos
\* submitted, the success message is shown and the total of vectors on the
\* course page equals the sum of the counts shown for its lessons.
C13_AllProcessedTotalIsSum ==
  \A k \in DOMAIN calls :
    (CourseProcessed(calls[k]) /\ Returned(calls[k]) = Submitted(calls[k]))
      => /\ ShowsSuccess(calls[k].page)
         /\ calls[k].page = "addAIProduct"
              => aiProduct.responseData.total_vectors
                   = SumVectors(aiProduct.responseData.items)

\* The per-asset items a page holds for display.
ItemsHeld(page) ==
  CASE page = "addAIProduct" ->
         IF aiProduct.responseData = Null THEN <<>>
         ELSE aiProduct.responseData.items
    [] page = "uploadDigitalProduct" ->
         IF upload.responseData = Null THEN <<>> ELSE <<upload.responseData>>
    [] OTHER -> <<>>

\* C14: after a course submission whose result is on display the course
\* page holds one item per video submitted; after a digital upload the page
\* holds at most one item.
C14_ItemCountEqualsVideoCount ==
  \A k \in DOMAIN calls :
    Observed(calls[k]) =>
      /\ (calls[k].page = "addAIProduct" /\ aiProduct.responseData # Null)
           => Len(ItemsHeld("addAIProduct")) = Submitted(calls[k])
      /\ calls[k].page = "uploadDigitalProduct"
           => Len(ItemsHeld("uploadDigitalProduct")) <= 1

\* The identifiers of a product-id text: its comma-separated segments,
\* trimmed, without the empty ones.
Identifiers(s) == IF s = "1,2" THEN {"1", "2"} ELSE {}

\* C15: no search request carries a blank query text, and no vector-search
\* request carries a product-id text without any identifier.
C15_BlankQueryNeverSent ==
  \A k \in DOMAIN calls :
    \A j \in DOMAIN calls[k].reqs :
      LET r == calls[k].reqs[j]
      IN /\ r.endpoint = "search-digital-products" => Trim(r.body.query) # ""
         /\ r.endpoint = "search-vectors"
              => /\ Trim(r.body.question) # ""
                 /\ Identifiers(r.body.product_ids) # {}

\* C16: the result limit of every search request is a number from 1 to 50.
C16_LimitInRange ==
  \A k \in DOMAIN calls :
    \A j \in DOMAIN calls[k].reqs :
      calls[k].reqs[j].endpoint \in {"search-digital-products", "search-vectors"}
        => LimitInRange(calls[k].reqs[j].body.n)

\* The cards on display on a search page.
Cards(page) ==
  CASE page = "searchDigitalProduct" -> RenderResults(search.searchResults)
    [] page = "vectorSearch" -> RenderResults(vector.searchResults)
    [] OTHER -> <<>>

\* A finished search run whose response carries the success flag.
SearchSucceeded(c) ==
  /\ Observed(c)
  /\ c.page \in {"searchDigitalProduct", "vectorSearch"}
  /\ Len(c.resps) = 1
  /\ LastResp(c).kind = "json"
  /\ LastResp(c).body.success

\* C17: after a successful search the cards on display are the results of
\* the response, as many and in the same order, the card at position i
\* (counted from 1) numbered i.
C17_ResultsInBackendOrder ==
  \A k \in DOMAIN calls :
    SearchSucceeded(calls[k]) =>
      LET results == LastResp(calls[k]).body.results
          cards == Cards(calls[k].page)
      IN /\ Len(cards) = Len(results)
         /\ \A i \in DOMAIN cards :
              cards[i].rank = i /\ cards[i].result = results[i]

C17_Witness ==
  \E k \in DOMAIN calls :
    /\ SearchSucceeded(calls[k])
    /\ calls[k].page = "searchDigitalProduct"
    /\ Len(Cards("searchDigitalProduct")) = 2
    /\ Cards("searchDigitalProduct")[1].result.product_id = 2
    /\ Cards("searchDigitalProduct")[1].result.similarity_score
         = Cards("searchDigitalProduct")[2].result.similarity_score

\* Whether the results section of a search page is rendered: renderResults
\* returns null without data, and on the digital search page also for an
\* empty results array.
SectionShown(page) ==
  CASE page = "searchDigitalProduct" ->
         search.searchResults # Null /\ search.searchResults.results # <<>>
    [] page = "vectorSearch" -> vector.searchResults # Null
    [] OTHER -> FALSE

\* What a search page shows: its status line and its results.
Display(page) ==
  [message |-> MessageOf(page), tone |-> ToneOf(page, MessageOf(page)),
   section |-> SectionShown(page), cards |-> Cards(page)]

\* What a search page shows after a response with success = false.
FailedDisplays(page) ==
  {[message |-> SearchFailureMessage(b),
    tone |-> ToneOf(page, SearchFailureMessage(b)),
    section |-> FALSE, cards |-> <<>>] : b \in {x \in SearchBodies : ~x.success}}

\* C18: a successful search without hits is shown as a success with an empty
\* result sequence, and what the page then shows is never what it shows
\* after a response with success = false.
C18_EmptyResultsNotAFailure ==
  \A k \in DOMAIN calls :
    (/\ Observed(calls[k])
     /\ calls[k].page \in {"searchDigitalProduct", "vectorSearch"}
     /\ Len(calls[k].resps) = 1
     /\ LastResp(calls[k]).kind = "json")
      => LET p == calls[k].page
             b == LastResp(calls[k]).body
         IN /\ ~b.success => Display(p) \in FailedDisplays(p)
            /\ (b.success /\ b.results = <<>>)
                 => /\ Display(p) \notin FailedDisplays(p)
                    /\ Display(p).tone = "success"
                    /\ Display(p).cards = <<>>

C18_Witness ==
  \E k \in DOMAIN calls :
    /\ SearchSucceeded(calls[k])
    /\ calls[k].page = "searchDigitalProduct"
    /\ LastResp(calls[k]).body.results = <<>>
    /\ search.message = <<"Found ", "0", " digital products matching your search">>
    /\ ~SectionShown("searchDigitalProduct")

\* C19: the admin id and admin type of every upload request are the items
\* held in the session storage.
C19_ActorFromSession ==
  \A k \in DOMAIN calls :
    \A j \in DOMAIN calls[k].reqs :
      calls[k].reqs[j].endpoint \in {"add-digital-product", "add-ai-train-product"}
        => /\ localStorage.admin_id # NoItem
           /\ calls[k].reqs[j].body.admin_id = localStorage.admin_id
           /\ localStorage.admin_type # NoItem
           /\ calls[k].reqs[j].body.admin_type = localStorage.admin_type

\* C20: a run of handleAISubmit sends nothing but its creation request and
\* its processing request (no request that deletes or undoes the record),
\* and when the record was created and the processing failed, the message
\* on display tells that the record exists.
C20_NoRollbackAndRecordTold ==
  \A k \in DOMAIN calls :
    calls[k].handler = "handleAISubmit" =>
      /\ \A j \in DOMAIN calls[k].reqs :
           calls[k].reqs[j].endpoint \in {"ai-training", "process-ai-product"}
      /\ Len(RequestsTo(calls[k], "ai-training")) <= 1
      /\ (/\ Observed(calls[k])
          /\ Len(calls[k].resps) = 2
          /\ calls[k].resps[1].body.success
          /\ StatusOf(calls[k]) # "success")
           => "Product created but AI processing failed: "
                \in Pieces(addProduct.message)

C22_NoRequestWithoutNumericPrice ==
  \A k \in DOMAIN calls :
    \A j \in DOMAIN calls[k].reqs :
      calls[k].reqs[j].endpoint
          \in {"ai-training", "products/digital", "add-digital-product",
               "add-ai-train-product"}
        => /\ calls[k].reqs[j].body.price \notin {"null", "NaN", ""}
           /\ calls[k].reqs[j].body.price \in PriceValues

\* The AI form filled in except for its price, with no submission made.
C22_Witness ==
  /\ currentPage = "addProduct"
  /\ addProduct.productType = "ai"
  /\ addProduct.name = "Intro to SQL"
  /\ addProduct.category = "Database"
  /\ addProduct.videosInput # <<>>
  /\ addProduct.price = ""
  /\ ~ENABLED handleAISubmit
  /\ calls = <<>>

\* C23: once a handler run has returned, on whatever path, the loading cell
\* of its page is false and the submit button is enabled again.
C23_LoadingClearedOnReturn ==
  \A k \in DOMAIN calls :
    Observed(calls[k]) =>
      /\ ~LoadingOf(calls[k].page)
      /\ ~SubmitDisabled(calls[k].page)

C23_Witness ==
  \E k \in DOMAIN calls :
    /\ calls[k].handler = "handleAISubmit"
    /\ Observed(calls[k])
    /\ Len(calls[k].resps) = 2
    /\ LastResp(calls[k]).kind = "transport"
    /\ ~addProduct.loading

\* The entered values and selected files of the three upload forms.
Forms ==
  <<[name |-> addProduct.name, category |-> addProduct.category,
     price |-> addProduct.price, description |-> addProduct.description,
     file |-> addProduct.file, videos |-> addProduct.videos,
     fileInput |-> addProduct.fileInput,
     videosInput |-> addProduct.videosInput,
     productType |-> addProduct.productType],
    upload.formData, upload.fileInput, aiProduct.formData>>

\* A run that has returned without success.
FailedRun(c) == c.pc = "done" /\ c.outcome \notin {"success", "processed"}

\* C24: a step in which a run of an upload form returns without success
\* (validation reject, success flag false, network error, in either phase)
\* leaves the entered values and the selected files of the forms unchanged.
C24_FormKeptOnFailure ==
  [][(\E i \in DOMAIN calls' :
        /\ FailedRun(calls'[i])
        /\ calls'[i].page \in {"addProduct", "uploadDigitalProduct", "addAIProduct"}
        /\ (i \notin DOMAIN calls \/ calls[i] # calls'[i]))
      => Forms' = Forms]_vars

C24_Witness ==
  \E k \in DOMAIN calls :
    /\ calls[k].page = "addAIProduct"
    /\ Observed(calls[k])
    /\ calls[k].outcome = "server_failure"
    /\ aiProduct.formData = calls[k].draft
    /\ aiProduct.formData.product_name = "Intro to SQL"
    /\ Len(aiProduct.formData.videos) = 2

\* C25: while a search runs, and after a search that ended in a validation
\* error, a server failure or a network error, the page stores no results
\* and shows no cards: nothing of an earlier search is left.
C25_NoResultsOfEarlierSearch ==
  \A k \in DOMAIN calls :
    (/\ calls[k].page \in {"searchDigitalProduct", "vectorSearch"}
     /\ calls[k].live
     /\ Running(calls[k]) \/ FailedRun(calls[k]))
      => /\ ResultDataOf(calls[k].page) = Null
         /\ Cards(calls[k].page) = <<>>

\* A failed vector search submitted while the results of a successful one
\* were on display.
C25_Witness ==
  \E k \in DOMAIN calls :
    /\ calls[k].page = "vectorSearch"
    /\ Observed(calls[k])
    /\ FailedRun(calls[k])
    /\ calls[k].shown.status = "success"
    /\ vector.searchResults = Null

\* C26: the rows on display in the table viewer are rows of the table that
\* is selected.
C26_RowsOfSelectedTable ==
  \A i \in DOMAIN viewTable.tableData :
    viewTable.tableData[i].table = viewTable.selectedTable

\* C27: the status line left by a run that failed has the error styling,
\* the one left by a run that succeeded has the success styling.
C27_FailureInErrorTone ==
  \A k \in DOMAIN calls :
    Observed(calls[k]) =>
      LET tone == ToneOf(calls[k].page, MessageOf(calls[k].page))
      IN IF FailedRun(calls[k]) THEN tone = "error" ELSE tone = "success"

\* C28: in a run of the course form that reached phase 2, the processing
\* request has as many video parts as the record request declared in
\* number_of_videos, and the same product name, whatever the operator did
\* with the panel while the record request was outstanding.
C28_BothPhasesSameDraft ==
  \A k \in DOMAIN calls :
    (calls[k].handler = "handleAISubmit" /\ Len(calls[k].reqs) = 2)
      => /\ calls[k].reqs[1].endpoint = "ai-training"
         /\ calls[k].reqs[2].endpoint = "process-ai-product"
         /\ Len(calls[k].reqs[2].body.videos)
              = calls[k].reqs[1].body.number_of_videos
         /\ calls[k].reqs[2].body.product_name
              = calls[k].reqs[1].body.product_name

\* The operator left the page while the record request was outstanding, and
\* the run went on to phase 2 with the two videos and the name it was
\* submitted with; the form itself shows other values by then.
C28_Witness ==
  \E k \in DOMAIN calls :
    /\ calls[k].handler = "handleAISubmit"
    /\ calls[k].pc = "fetch2"
    /\ ~calls[k].live
    /\ calls[k].leftWith = 1
    /\ calls[k].reqs[1].body.number_of_videos = 2
    /\ Len(calls[k].reqs[2].body.videos) = 2
    /\ calls[k].reqs[2].body.product_name = "Intro to SQL"
    /\ addProduct.name # "Intro to SQL"

\* C29: a run whose page was left sends nothing after that: it has the
\* requests it had when the page was left, and none of them goes to an
\* endpoint other than the two of the form (no cancellation).
C29_AbandonedRunSendsNothing ==
  \A k \in DOMAIN calls :
    ~calls[k].live =>
      /\ Len(calls[k].reqs) = calls[k].leftWith
      /\ \A j \in DOMAIN calls[k].reqs :
           calls[k].reqs[j].endpoint \in {"ai-training", "process-ai-product"}

\* The two pages that upload a product in one request and keep the data of
\* the response for display.
UploadPages == {"uploadDigitalProduct", "addAIProduct"}

\* C30: an upload page holds response data only when the submission that
\* completed last took the success branch: while a submission runs and after
\* one that failed the data is null, and data that is held stands next to
\* the success message, never next to an error message.
C30_ResponseDataOnlyAfterSuccess ==
  /\ \A page \in UploadPages :
       ResultDataOf(page) # Null
         => /\ ~LoadingOf(page)
            /\ ShowsSuccess(page)
            /\ ToneOf(page, MessageOf(page)) = "success"
  /\ \A k \in DOMAIN calls :
       (/\ calls[k].page \in UploadPages
        /\ calls[k].live
        /\ Running(calls[k]) \/ FailedRun(calls[k]))
         => ResultDataOf(calls[k].page) = Null

\* A course upload that failed while the details of an earlier, successful
\* upload were on display: the details are gone.
C30_Witness ==
  \E k \in DOMAIN calls :
    /\ calls[k].page = "addAIProduct"
    /\ Observed(calls[k])
    /\ FailedRun(calls[k])
    /\ calls[k].shown.data
    /\ aiProduct.responseData = Null
    /\ ~ShowsSuccess("addAIProduct")

====
